---- MODULE Spec2Model ----
(***************************************************************************)
(* Model of telegram_getter: the CLI commands (cli.py), the auth wrapper   *)
(* (auth.py), the message downloader (downloader.py), the media downloader *)
(* (media.py), the transcriber (transcriber.py), the exporter              *)
(* (exporter.py), the chat lister (chats.py) and utils.py.                 *)
(*                                                                         *)
(* Spec            one run of a CLI command (auth, list or download)       *)
(* SpecMedia       a sequence of MediaDownloader.download_media calls      *)
(* SpecTranscribe  one call of transcribe_voice_message                    *)
(* SpecMeta        one call of generate_metadata                           *)
(* SpecDownloader  one iteration of MessageDownloader.download_messages    *)
(* SpecAuth        the operations of one TelegramAuth object               *)
(* SpecLoad        one call of load_existing_messages                      *)
(* SpecChats       one call of list_chats                                  *)
(* SpecSanitize    sanitize_filename applied once and twice                *)
(* SpecTranscribeFair  SpecTranscribe with every pending step taken        *)
(* SpecOptions     one run of a command, over every combination of options *)
(* SpecMediaRuns   the media phase of successive download runs             *)
(* SpecPhases      a download run from the merge to the export             *)
(* SpecChatDir     the chat output directories of downloads of two chats   *)
(***************************************************************************)
EXTENDS Integers, Sequences, FiniteSets, TLC

(* ------------------------------ bounds -------------------------------- *)
\* message IDs used for saved and server messages
MaxId == 3
\* message timestamps (abstract instants)
MaxDate == 2
\* longest saved messages.json
MaxSaved == 2
\* messages of the chat the media downloader is asked about
MaxMediaMsgs == 2
\* download_media calls made on one MediaDownloader
MaxCalls == 3
\* largest max_wait a transcription is called with
MaxWait == 5
\* longest message list handed to generate_metadata
MaxMetaMsgs == 2
\* most messages client.iter_messages serves to download_messages
MaxFeed == 4
\* largest MessageDownloader.batch_size
MaxBatch == 2
\* most TelegramClient objects one TelegramAuth constructs
MaxClients == 2
\* most client.disconnect() calls of one TelegramAuth
MaxDisconnects == 3
\* longest messages array of a messages.json handed to load_existing_messages
MaxLoad == 3
\* most dialogs client.get_dialogs() returns
MaxDialogs == 3
\* longest filename handed to sanitize_filename
MaxName == 3
\* most download runs made on one chat output directory
MaxRuns == 3
\* longest list the message download hands to the later phases
MaxFetched == 2

Ids == 1..MaxId
Dates == 1..MaxDate

\* Python's None where the other values are integers
NoneInt == -1

VARIABLES
    \* --- one CLI command run (cli.py) ---
    cmd,            \* "auth" | "list" | "download" | "idle"
    args,           \* parsed command-line options of the run
    pc,             \* position of the run in its handler
    client,         \* TelegramAuth.client: "None" | "connected"
    exc,            \* exception propagating out of the handler's coroutine
    failed_at,      \* step at which the run failed, "none" otherwise
    exit_code,      \* process exit code, NoneInt while the run is going
    json_file,      \* messages.json of the chat directory: "absent" or its messages
    md_file,        \* messages.md: "absent" or its 'Total messages' count
    meta_file,      \* metadata.json: "absent" or its record
    server,         \* IDs of the messages the chat holds on the server
    existing_dicts, \* _download_async local: dicts loaded in sync mode
    min_id,         \* _download_async local: lower bound passed on
    reverse,        \* _download_async local: chronological order flag
    messages,       \* _download_async local: the list that gets exported
    iter_request,   \* arguments client.iter_messages was called with, or "none"
    \* --- MediaDownloader (media.py) ---
    tg_msgs,        \* the chat's messages as the client serves them: id -> date and media
    counters,       \* MediaDownloader._sequence_counters
    media_files,    \* files under media/: relative path -> id of the message whose content it holds
    md_last,        \* the latest download_media call: message, sequence number, path, return
    md_ncalls,      \* number of download_media calls made
    calls_per_key,  \* number of calls made for a message with media, per (date, category)
    client_downloads, \* number of client.download_media requests
    \* --- transcribe_voice_message (transcriber.py) ---
    tr_pc, max_wait, wait_time, result, tr_requests, tr_return, tr_cause,
    \* --- generate_metadata (exporter.py) ---
    meta_in, metadata,
    \* --- MessageDownloader.download_messages (downloader.py) ---
    dl_pc,          \* position of the async generator
    dl_call,        \* keyword arguments of the call and their values
    dl_feed,        \* dates of the messages client.iter_messages serves, in its order
    dl_pos,         \* number of messages taken from the client so far
    batch_size,     \* MessageDownloader.batch_size
    dl_count,       \* local count
    batch_count,    \* local batch_count
    dl_yielded,     \* positions in the feed of the messages yielded, in order
    dl_stored,      \* self.messages, as positions in the feed
    dl_reported,    \* positions in the feed for which progress_callback was called
    dl_delays,      \* number of asyncio.sleep(delay_seconds) made
    dl_request,     \* arguments client.iter_messages was called with
    dl_exc,         \* exception raised by the call
    \* --- TelegramAuth (auth.py) ---
    env,            \* API_ID and API_HASH as os.getenv gives them after load_dotenv
    au_obj,         \* a TelegramAuth object exists
    au_client,      \* TelegramAuth.client: NoClient or the number of a TelegramClient
    au_made,        \* number of TelegramClient objects constructed
    au_open,        \* clients whose connection is open
    au_started,     \* clients whose start() returned and that were not disconnected since
    au_disconnects, \* clients on which disconnect() was called, in call order
    au_op,          \* the operation that ran last
    au_ret,         \* what it returned
    au_exc,         \* what it raised
    au_exit,        \* exit code of the command whose TelegramAuth() failed
    ctx,            \* position in an "async with auth" statement
    ctx_client,     \* the client __aenter__ returned
    ctx_body,       \* exception raised by the body
    ctx_out,        \* exception leaving the statement
    \* --- load_existing_messages (exporter.py) ---
    ld_file,        \* messages.json of the output directory
    ld_pc,          \* "call" before the call, "done" after it
    ld_ret,         \* the returned pair
    \* --- list_chats (chats.py) ---
    lc_dialogs,     \* what client.get_dialogs() returns: the entity of each dialog
    lc_filter,      \* filter_type
    lc_pc,          \* "call" before the call, "done" after it
    lc_ret,         \* the returned list of chat dicts
    \* --- sanitize_filename (utils.py) ---
    sf_in,          \* the filename passed, as a sequence of characters
    sf_pc,          \* "call", "once" after one application, "twice" after two
    sf_out,         \* sanitize_filename(sf_in)
    sf_out2,        \* sanitize_filename(sf_out)
    \* --- the media phase of successive download runs (cli.py) ---
    rn_present,     \* the chat holds the messages 1..rn_present, oldest first
    rn_active,      \* a run is in its media phase
    rn_sync,        \* the run was started with --sync
    rn_queue,       \* messages client.iter_messages still has to serve in this run
    rn_runs,        \* number of runs started
    run_paths,      \* msg.media_path of the messages of the run
    saved_paths,    \* media_path of each message in messages.json
    rn_handed,      \* <<message, path>> pairs this run's MediaDownloader returned
    \* --- _download_async from the merge to the export (cli.py) ---
    ph_pc,          \* phase the run is in
    ph_opts,        \* --sync, media download and --transcribe of the run
    ph_saved,       \* existing_dicts
    ph_msgs,        \* messages
    ph_json,        \* messages.json of the chat directory
    ph_md,          \* messages.md
    ph_meta,        \* metadata.json
    ph_failed,      \* phase in which the run failed, "none" otherwise
    ph_written,     \* export files the run has written, in order
    \* --- the chat output directory of download (cli.py) ---
    cd_names,       \* display name of each chat
    cd_sanitized,   \* _sanitize_filename of the name, once the chat was downloaded
    cd_dir          \* chat_output_dir of the download of each chat

runVars == <<cmd, args, pc, client, exc, failed_at, exit_code, json_file, md_file,
             meta_file, server, existing_dicts, min_id, reverse, messages, iter_request>>
mediaVars == <<tg_msgs, counters, media_files, md_last, md_ncalls, calls_per_key,
               client_downloads>>
trVars == <<tr_pc, max_wait, wait_time, result, tr_requests, tr_return, tr_cause>>
metaVars == <<meta_in, metadata>>
dlVars == <<dl_pc, dl_call, dl_feed, dl_pos, batch_size, dl_count, batch_count, dl_yielded,
            dl_stored, dl_reported, dl_delays, dl_request, dl_exc>>
authVars == <<env, au_obj, au_client, au_made, au_open, au_started, au_disconnects, au_op, au_ret,
              au_exc, au_exit, ctx, ctx_client, ctx_body, ctx_out>>
loadVars == <<ld_file, ld_pc, ld_ret>>
chatVars == <<lc_dialogs, lc_filter, lc_pc, lc_ret>>
utilVars == <<sf_in, sf_pc, sf_out, sf_out2>>
runsVars == <<rn_present, rn_active, rn_sync, rn_queue, rn_runs, run_paths, saved_paths,
              rn_handed>>
phVars == <<ph_pc, ph_opts, ph_saved, ph_msgs, ph_json, ph_md, ph_meta, ph_failed,
            ph_written>>
dirVars == <<cd_names, cd_sanitized, cd_dir>>
vars == <<runVars, mediaVars, trVars, metaVars, dlVars, authVars, loadVars
          , chatVars, utilVars, runsVars, phVars, dirVars>>

(* ------------------------------ helpers ------------------------------- *)
Range(s) == {s[i] : i \in DOMAIN s}

SeqsUpTo(S, n) == UNION {[1..k -> S] : k \in 0..n}

IdsOf(ms) == {ms[i].id : i \in DOMAIN ms}

DistinctIds(ms) == \A i, j \in DOMAIN ms : i # j => ms[i].id # ms[j].id

SortedByDate(ms) == \A i, j \in DOMAIN ms : i < j => ms[i].date <= ms[j].date

RECURSIVE MaxOf(_)
MaxOf(S) == IF S = {} THEN 0
            ELSE LET x == CHOOSE y \in S : TRUE
                     m == MaxOf(S \ {x})
                 IN IF x > m THEN x ELSE m

\* a stored message dict / a Message, reduced to the fields the merge reads
MsgRec == [id : Ids, date : Dates]

(* ===================== one CLI command run (cli.py) =================== *)

Commands == {"auth", "list", "download"}

\* download's options that decide the reachable control flow, and list's
\* number of filter flags set
\* values of --from and --to: not given (None), the empty string, a date
\* strptime parses with %Y-%m-%d, a text it rejects
DateOptions == {"None", "", "2025-01-01", "01/01/2025"}

ArgsSet == [chat : BOOLEAN, chat_id : BOOLEAN, from_date : DateOptions,
            to_date : DateOptions,
            download_all : BOOLEAN, sync : BOOLEAN, filters : 0..2]

NoArgs == [chat |-> FALSE, chat_id |-> FALSE, from_date |-> "None", to_date |-> "None",
           download_all |-> FALSE, sync |-> FALSE, filters |-> 0]

\* every combination of the options of a command
AllArgsOf(c) ==
    IF c = "download" THEN {a \in ArgsSet : a.filters = 0}
    ELSE IF c = "list" THEN {a \in ArgsSet : a = [NoArgs EXCEPT !.filters = a.filters]}
    ELSE {NoArgs}

\* the combinations tried on every saved file and server state: of the date
\* options, no date or a --from that is rejected
ArgsOf(c) ==
    IF c = "download"
    THEN {a \in ArgsSet : /\ a.filters = 0 /\ a.to_date = "None"
                          /\ a.from_date \in {"None", "01/01/2025"}}
    ELSE IF c = "list" THEN {a \in ArgsSet : a = [NoArgs EXCEPT !.filters = a.filters]}
    ELSE {NoArgs}

\* messages.json as left by an earlier export: absent, or a list of message
\* dicts with pairwise distinct IDs in any order
SavedFiles ==
    {[exists |-> FALSE, messages |-> <<>>]} \cup
    {[exists |-> TRUE, messages |-> ms] :
        ms \in {s \in SeqsUpTo(MsgRec, MaxSaved) : DistinctIds(s)}}

NoRequest == [called |-> FALSE, min_id |-> NoneInt, reverse |-> FALSE]

\* data.get("messages", []): the array, or the empty list when the file has
\* no "messages" key
DataGetMessages(f) == IF "messages" \in DOMAIN f THEN f.messages ELSE <<>>

\* a loader that takes the ID of the last stored message for the highest
load_existing_messages_LastId(f) ==
    IF ~f.exists THEN <<  <<>>, 0 >>
    ELSE LET stored == DataGetMessages(f)
         IN IF stored = <<>> THEN <<  <<>>, 0 >>
            ELSE << stored, stored[Len(stored)].id >>

\* exporter.load_existing_messages: ([], 0) for an absent file or an empty
\* or missing messages array, else the stored dicts and their highest ID
load_existing_messages(f) ==
    IF ~f.exists THEN <<  <<>>, 0 >>
    ELSE LET stored == DataGetMessages(f)
         IN IF stored = <<>> THEN <<  <<>>, 0 >>
            ELSE << stored, MaxOf(IdsOf(stored)) >>

\* parameters MessageDownloader.download_messages declares
download_messages_params ==
    {"chat", "from_date", "to_date", "limit", "progress_callback", "store", "fetch_total"}

\* keyword arguments _download_async passes to download_messages
download_call_kwargs ==
    {"chat", "from_date", "to_date", "store", "reverse", "min_id"}

\* Python binds a call only when every keyword names a declared parameter;
\* otherwise the call raises TypeError before the body runs
Binds(kwargs, params) == kwargs \subseteq params

\* what download_messages hands to client.iter_messages: chat, offset_date
\* and limit only
iter_messages_request == [called |-> TRUE, min_id |-> NoneInt, reverse |-> FALSE]

\* typer.Exit raised inside the coroutine taken for a normal end
ExitCodeOf_ExitIsSuccess(e) == IF e \in {"none", "Exit"} THEN 0 ELSE 1

\* exit code of a command: both except clauses raise typer.Exit(code=1),
\* a handler that returns normally ends the process with 0
ExitCodeOf(e) == IF e = "none" THEN 0 ELSE 1

RunInit ==
    /\ cmd \in Commands
    /\ args \in ArgsOf(cmd)
    /\ pc = "start"
    /\ client = "None"
    /\ exc = "none"
    /\ failed_at = "none"
    /\ exit_code = NoneInt
    /\ json_file \in SavedFiles
    /\ md_file = [exists |-> json_file.exists, total |-> Len(json_file.messages)]
    /\ meta_file = [exists |-> json_file.exists, total_messages |-> Len(json_file.messages)]
    /\ server \in SUBSET Ids
    /\ existing_dicts = <<>>
    /\ min_id = NoneInt
    /\ reverse = FALSE
    /\ messages = <<>>
    /\ iter_request = NoRequest

\* a command with any combination of options, run on an output directory
\* that is empty or holds one saved message, the chat holding that message
\* and a newer one
RunInitOptions ==
    /\ cmd \in Commands
    /\ args \in AllArgsOf(cmd)
    /\ pc = "start"
    /\ client = "None"
    /\ exc = "none"
    /\ failed_at = "none"
    /\ exit_code = NoneInt
    /\ json_file \in {f \in SavedFiles : IdsOf(f.messages) \subseteq {1}}
    /\ md_file = [exists |-> json_file.exists, total |-> Len(json_file.messages)]
    /\ meta_file = [exists |-> json_file.exists, total_messages |-> Len(json_file.messages)]
    /\ server = {1, 2}
    /\ existing_dicts = <<>>
    /\ min_id = NoneInt
    /\ reverse = FALSE
    /\ messages = <<>>
    /\ iter_request = NoRequest

RunIdle ==
    /\ cmd = "idle" /\ args = NoArgs /\ pc = "idle" /\ client = "None"
    /\ exc = "none" /\ failed_at = "none" /\ exit_code = NoneInt
    /\ json_file = [exists |-> FALSE, messages |-> <<>>]
    /\ md_file = [exists |-> FALSE, total |-> 0]
    /\ meta_file = [exists |-> FALSE, total_messages |-> 0]
    /\ server = {} /\ existing_dicts = <<>> /\ min_id = NoneInt
    /\ reverse = FALSE /\ messages = <<>> /\ iter_request = NoRequest

\* the run leaves the handler's coroutine with exception e raised at step s
Raise(e, s, next) ==
    /\ exc' = e
    /\ failed_at' = s
    /\ pc' = next

\* auth(): no argument to validate, the coroutine is started at once
AuthStart ==
    /\ cmd = "auth" /\ pc = "start"
    /\ pc' = "init"
    /\ UNCHANGED <<cmd, args, client, exc, failed_at, exit_code, json_file, md_file,
                   meta_file, server, existing_dicts, min_id, reverse, messages, iter_request>>

\* list(): more than one filter flag ends the command with typer.Exit(1)
\* before the coroutine is created
ListValidate ==
    /\ cmd = "list" /\ pc = "start"
    /\ IF args.filters > 1
       THEN /\ Raise("Exit", "validate", "done")
            /\ exit_code' = 1
       ELSE /\ pc' = "init"
            /\ UNCHANGED <<exc, failed_at, exit_code>>
    /\ UNCHANGED <<cmd, args, client, json_file, md_file, meta_file, server,
                   existing_dicts, min_id, reverse, messages, iter_request>>

\* a command that parses nothing
ParseRaises_Never(option) == FALSE

\* "if from_date: parsed_from_date = _parse_date(from_date)": None and the
\* empty string are not parsed, strptime raises ValueError for other text
\* that is no %Y-%m-%d date
ParseRaises(option) == option \notin {"None", "", "2025-01-01"}

\* parsed_from_date / parsed_to_date handed to _download_async: None unless
\* the option was parsed
Parsed(option) == IF option = "" THEN "None" ELSE option

\* download(): neither chat name nor --id, or an unparsable --from/--to,
\* ends the command with typer.Exit(1) before the coroutine is created
DownloadValidate ==
    /\ cmd = "download" /\ pc = "start"
    /\ IF (~args.chat /\ ~args.chat_id)
          \/ ParseRaises(args.from_date) \/ ParseRaises(args.to_date)
       THEN /\ Raise("Exit", "validate", "done")
            /\ exit_code' = 1
            /\ UNCHANGED args
       ELSE /\ pc' = "init"
            /\ args' = [args EXCEPT !.from_date = Parsed(args.from_date),
                                    !.to_date = Parsed(args.to_date)]
            /\ UNCHANGED <<exc, failed_at, exit_code>>
    /\ UNCHANGED <<cmd, client, json_file, md_file, meta_file, server,
                   existing_dicts, min_id, reverse, messages, iter_request>>

\* values os.getenv may give: None for an absent variable, the empty string,
\* a numeric and a non-numeric API_ID, an API_HASH
ApiIdValues == {"None", "", "12345", "abc"}
ApiHashValues == {"None", "", "abc123hash"}

\* Python's "not value" for None and for strings
Falsy(v) == v \in {"None", ""}

\* a check that only notices absent variables
validate_credentials_AbsentOnly(api_id, api_hash) ==
    (IF api_id = "None" THEN <<"API_ID">> ELSE <<>>)
        \o (IF api_hash = "None" THEN <<"API_HASH">> ELSE <<>>)

\* TelegramAuth._validate_credentials: the list of missing variables
validate_credentials(api_id, api_hash) ==
    (IF Falsy(api_id) THEN <<"API_ID">> ELSE <<>>)
        \o (IF Falsy(api_hash) THEN <<"API_HASH">> ELSE <<>>)

\* TelegramAuth.__init__ / _validate_credentials: a missing or empty API_ID
\* or API_HASH raises AuthenticationError
TelegramAuthInit ==
    /\ pc = "init"
    /\ \E api_id \in ApiIdValues, api_hash \in ApiHashValues :
         IF validate_credentials(api_id, api_hash) = <<>>
         THEN pc' = "enter" /\ UNCHANGED <<exc, failed_at>>
         ELSE Raise("AuthenticationError", "credentials", "handler")
    /\ UNCHANGED <<cmd, args, client, exit_code, json_file, md_file, meta_file, server,
                   existing_dicts, min_id, reverse, messages, iter_request>>

\* __aenter__ -> TelegramAuth.connect: every failure resets client to None
\* and is re-raised as AuthenticationError
Connect ==
    /\ pc = "enter"
    /\ \E outcome \in {"ok", "ConnectionError", "ValueError", "Exception"} :
         IF outcome = "ok"
         THEN /\ client' = "connected"
              /\ pc' = "body"
              /\ UNCHANGED <<exc, failed_at>>
         ELSE /\ client' = "None"
              /\ Raise("AuthenticationError", "connect", "handler")
    /\ UNCHANGED <<cmd, args, exit_code, json_file, md_file, meta_file, server,
                   existing_dicts, min_id, reverse, messages, iter_request>>

\* _auth_async body: client.get_me() and the username
AuthBody ==
    /\ cmd = "auth" /\ pc = "body"
    /\ \E outcome \in {"ok", "error"} :
         IF outcome = "ok"
         THEN pc' = "aexit" /\ UNCHANGED <<exc, failed_at>>
         ELSE Raise("Exception", "body", "aexit")
    /\ UNCHANGED <<cmd, args, client, exit_code, json_file, md_file, meta_file, server,
                   existing_dicts, min_id, reverse, messages, iter_request>>

\* _list_chats_async body: list_chats and the table (or the early return
\* when there is no chat)
ListBody ==
    /\ cmd = "list" /\ pc = "body"
    /\ \E outcome \in {"chats", "no_chats", "error"} :
         IF outcome # "error"
         THEN pc' = "aexit" /\ UNCHANGED <<exc, failed_at>>
         ELSE Raise("Exception", "body", "aexit")
    /\ UNCHANGED <<cmd, args, client, exit_code, json_file, md_file, meta_file, server,
                   existing_dicts, min_id, reverse, messages, iter_request>>

\* _download_async: find the chat by ID or by name and create its directory
DownloadLookup ==
    /\ cmd = "download" /\ pc = "body"
    /\ \E outcome \in {"found", "not_found", "error"} :
         CASE outcome = "found" ->
                pc' = "lookedup" /\ UNCHANGED <<exc, failed_at>>
           [] outcome = "not_found" ->
                Raise("Exit", "lookup", "aexit")
           [] outcome = "error" ->
                \* by ID every error is turned into typer.Exit(1); by name an
                \* error of get_dialogs / get_entity / mkdir propagates as it is
                Raise(IF args.chat_id THEN "Exit" ELSE "Exception", "lookup", "aexit")
    /\ UNCHANGED <<cmd, args, client, exit_code, json_file, md_file, meta_file, server,
                   existing_dicts, min_id, reverse, messages, iter_request>>

\* _download_async: reverse / min_id from --all, then from the saved export
\* in sync mode; reading an existing messages.json may fail (unreadable or
\* not the JSON the exporter writes)
DownloadSyncLoad ==
    /\ cmd = "download" /\ pc = "lookedup"
    /\ \E outcome \in {"read", "error"} :
         IF args.sync /\ json_file.exists /\ outcome = "error"
         THEN /\ Raise("Exception", "load", "aexit")
              /\ UNCHANGED <<existing_dicts, min_id, reverse>>
         ELSE /\ LET loaded == load_existing_messages(json_file)
                     last_id == loaded[2]
                 IN IF args.sync
                    THEN /\ existing_dicts' = loaded[1]
                         /\ min_id' = IF last_id > 0 THEN last_id
                                      ELSE IF args.download_all THEN 0 ELSE NoneInt
                         /\ reverse' = IF last_id > 0 THEN TRUE ELSE args.download_all
                    ELSE /\ existing_dicts' = <<>>
                         /\ min_id' = IF args.download_all THEN 0 ELSE NoneInt
                         /\ reverse' = args.download_all
              /\ pc' = "loaded"
              /\ UNCHANGED <<exc, failed_at>>
    /\ UNCHANGED <<cmd, args, client, exit_code, json_file, md_file,
                   meta_file, server, messages, iter_request>>

\* _download_async: downloader.download_messages(chat=, from_date=, to_date=,
\* store=, reverse=, min_id=)
DownloadMessagesCall ==
    /\ cmd = "download" /\ pc = "loaded"
    /\ IF Binds(download_call_kwargs, download_messages_params)
       THEN /\ iter_request' = iter_messages_request
            /\ pc' = "aexit"
            /\ UNCHANGED <<exc, failed_at>>
       ELSE /\ Raise("TypeError", "download_messages", "aexit")
            /\ UNCHANGED iter_request
    /\ UNCHANGED <<cmd, args, client, exit_code, json_file, md_file, meta_file, server,
                   existing_dicts, min_id, reverse, messages>>

\* __aexit__ -> TelegramAuth.disconnect: client.disconnect() then client = None;
\* an error of client.disconnect() leaves client set and replaces the exception
AExit ==
    /\ pc = "aexit"
    /\ \E outcome \in {"ok", "error"} :
         IF client = "None" \/ outcome = "ok"
         THEN /\ client' = "None"
              /\ pc' = "handler"
              /\ UNCHANGED <<exc, failed_at>>
         ELSE /\ UNCHANGED client
              /\ exc' = "Exception"
              /\ failed_at' = IF failed_at = "none" THEN "disconnect" ELSE failed_at
              /\ pc' = "handler"
    /\ UNCHANGED <<cmd, args, exit_code, json_file, md_file, meta_file, server,
                   existing_dicts, min_id, reverse, messages, iter_request>>

\* the command's try/except and main(): the exit code of the process
CommandExit ==
    /\ pc = "handler"
    /\ exit_code' = ExitCodeOf(exc)
    /\ pc' = "done"
    /\ UNCHANGED <<cmd, args, client, exc, failed_at, json_file, md_file, meta_file,
                   server, existing_dicts, min_id, reverse, messages, iter_request>>

RunNext ==
    \/ AuthStart \/ ListValidate \/ DownloadValidate
    \/ TelegramAuthInit \/ Connect
    \/ AuthBody \/ ListBody
    \/ DownloadLookup \/ DownloadSyncLoad \/ DownloadMessagesCall
    \/ AExit \/ CommandExit

(* ------------------------- claims about the run ------------------------ *)

\* the run is a finished download --sync over a non-empty saved export that
\* got as far as asking the downloader for the new messages
SyncRunOverSaved ==
    /\ cmd = "download" /\ pc = "done" /\ args.sync
    /\ json_file.exists /\ json_file.messages # <<>>
    /\ failed_at \in {"none", "download_messages"}

\* IDs of the server's messages that are newer than every saved one
NewerOnServer == {i \in server : i > MaxOf(IdsOf(json_file.messages))}

\* C1: a download --sync run over saved messages with pairwise distinct IDs
\* exports a merged list without two messages of the same ID, holding exactly
\* the saved IDs and the newly fetched ones.
C1_MergedIdsUnique ==
    SyncRunOverSaved =>
        /\ exit_code = 0
        /\ DistinctIds(messages)
        /\ IdsOf(messages) = IdsOf(existing_dicts) \cup NewerOnServer

\* C2: a download --sync run over a non-empty saved export exports the
\* merged list in non-decreasing timestamp order, whatever the stored order.
C2_MergedSortedByDate ==
    SyncRunOverSaved =>
        /\ IdsOf(json_file.messages) \subseteq IdsOf(messages)
        /\ SortedByDate(messages)

\* C3: in a download --sync run whose saved export holds a message with a
\* positive ID, the message-download phase asks client.iter_messages for
\* min_id = the highest saved ID (with --all too).
C3_MinIdForwarded ==
    SyncRunOverSaved =>
        /\ iter_request.called
        /\ iter_request.min_id = MaxOf(IdsOf(json_file.messages))

\* C6: a command ends with exit code 1 whenever one of its steps failed and
\* with exit code 0 only when every step completed.
C6_ExitCode ==
    pc = "done" =>
        /\ exit_code \in {0, 1}
        /\ (failed_at # "none" => exit_code = 1)
        /\ (exit_code = 0 => failed_at = "none" /\ exc = "none" /\ client = "None")

\* a download whose chat lookup failed after a successful connect has ended
C6_Witness ==
    /\ pc = "done" /\ cmd = "download" /\ failed_at = "lookup" /\ exit_code = 1

\* a date option that was given a value which is no YYYY-MM-DD date
GivenNotADate(option) == option \notin {"None", "", "2025-01-01"}

\* the arguments the claim says are rejected
RejectedArgs ==
    \/ /\ cmd = "download"
       /\ \/ ~args.chat /\ ~args.chat_id
          \/ GivenNotADate(args.from_date)
          \/ GivenNotADate(args.to_date)
    \/ cmd = "list" /\ args.filters > 1

NoMedia == [cls |-> "None", major |-> "", minor |-> "", file_ext |-> ""]
Photo == [cls |-> "MessageMediaPhoto", major |-> "", minor |-> "", file_ext |-> ""]
Voice == [cls |-> "MessageMediaDocument", major |-> "audio", minor |-> "ogg", file_ext |-> ""]
Medias == {NoMedia, Photo, Voice}

MediaIds == 1..MaxMediaMsgs

\* media.get_media_type: the folder a media object goes to
get_media_type(media) ==
    IF media.cls = "MessageMediaPhoto" THEN "images"
    ELSE IF media.cls = "MessageMediaDocument"
    THEN IF media.major = "" THEN "other"
         ELSE IF media.major = "audio" THEN "audio"
         ELSE IF media.major = "video" THEN "video"
         ELSE "documents"
    ELSE "other"

\* media.get_extension_from_media: the file_name's extension, else one
\* derived from the MIME type, else bin
get_extension_from_media(media) ==
    IF media.cls = "MessageMediaPhoto" THEN "jpg"
    ELSE IF media.cls = "MessageMediaDocument"
    THEN IF media.file_ext # "" THEN media.file_ext
         ELSE IF media.major = "audio" /\ media.minor = "ogg" THEN "ogg"
         ELSE IF media.major = "audio" /\ media.minor = "mpeg" THEN "mp3"
         ELSE IF media.major = "audio" THEN media.minor
         ELSE IF media.major = "video" /\ media.minor = "mp4" THEN "mp4"
         ELSE IF media.major = "video" THEN media.minor
         ELSE IF media.major = "application" /\ media.minor = "pdf" THEN "pdf"
         ELSE "bin"
    ELSE "bin"

RECURSIVE Digits(_)
\* decimal digits of a natural number, most significant first
Digits(n) == IF n < 10 THEN <<n>> ELSE Append(Digits(n \div 10), n % 10)

\* Python's format spec 03d: at least three digits, zero-padded on the left
Format03d(n) ==
    LET d == Digits(n)
    IN IF Len(d) >= 3 THEN d ELSE [i \in 1..(3 - Len(d)) |-> 0] \o d

\* a filename that ignores the sequence number
generate_filename_NoSequence(date, extension, sequence) == <<date, Format03d(1), extension>>

\* media.generate_filename: <date>_<NNN>.<extension>
generate_filename(date, extension, sequence) == <<date, Format03d(sequence), extension>>

\* one counter per date, shared by all categories
sequence_key_PerDate(date_key, media_type) == <<date_key, "all">>

\* the key download_media counts sequence numbers under
sequence_key(date_key, media_type) == <<date_key, media_type>>

\* relative path download_media returns: media/<media_type>/<filename>
relative_path(media_type, filename) == <<"media", media_type>> \o filename

\* the existence check left out: every call downloads
file_exists_Always(path, files) == FALSE

\* Path.exists() of the target file
file_exists(path, files) == \E f \in files : f.path = path

NoKey == <<0, "">>

\* files an earlier run may have left under media/ (owner 0: content that
\* does not come from a message of this downloader's calls)
EarlierFiles ==
    {[path |-> relative_path("images", generate_filename(1, "jpg", 1)), owner |-> 0],
     [path |-> relative_path("audio", generate_filename(1, "ogg", 2)), owner |-> 0]}

NoCall ==
    [id |-> 0, key |-> NoKey, seq |-> 0, path |-> <<>>, existed |-> FALSE,
     requested |-> FALSE, outcome |-> "no_call", ret |-> "None"]

MediaInit ==
    /\ tg_msgs \in [MediaIds -> [date : Dates, media : Medias]]
    /\ counters = [k \in {} |-> 0]
    /\ media_files \in {{}, EarlierFiles}
    /\ md_last = NoCall
    /\ md_ncalls = 0
    /\ calls_per_key = [k \in {} |-> 0]
    /\ client_downloads = 0

MediaIdle ==
    /\ tg_msgs = [i \in {} |-> 0]
    /\ counters = [k \in {} |-> 0]
    /\ media_files = {}
    /\ md_last = NoCall
    /\ md_ncalls = 0
    /\ calls_per_key = [k \in {} |-> 0]
    /\ client_downloads = 0

\* defaultdict(int) lookup
CounterOf(c, k) == IF k \in DOMAIN c THEN c[k] ELSE 0

\* defaultdict(int) increment
Incremented(c, k) ==
    [x \in DOMAIN c \cup {k} |-> IF x = k THEN CounterOf(c, k) + 1 ELSE c[x]]

\* MediaDownloader.download_media(message): outcome is what the client's
\* download_media does when it is asked: it saves the file, returns None
\* without a file, or raises
download_media(id, outcome) ==
    LET message == tg_msgs[id]
    IN IF message.media = NoMedia
       THEN /\ md_last' = [NoCall EXCEPT !.id = id, !.outcome = "no_media"]
            /\ UNCHANGED <<counters, media_files, client_downloads>>
       ELSE LET media_type == get_media_type(message.media)
                extension == get_extension_from_media(message.media)
                key == sequence_key(message.date, media_type)
                sequence == CounterOf(counters, key) + 1
                filename == generate_filename(message.date, extension, sequence)
                path == relative_path(media_type, filename)
                existed == file_exists(path, media_files)
                entry == [id |-> id, key |-> key, seq |-> sequence, path |-> path,
                          existed |-> existed]
            IN /\ counters' = Incremented(counters, key)
               /\ IF existed
                  THEN /\ md_last' =
                              entry @@ [requested |-> FALSE, outcome |-> "existing", ret |-> "path"]
                       /\ UNCHANGED <<media_files, client_downloads>>
                  ELSE /\ client_downloads' = client_downloads + 1
                       /\ media_files' = IF outcome = "saved"
                                         THEN media_files \cup {[path |-> path, owner |-> id]}
                                         ELSE media_files
                       /\ md_last' =
                              entry @@ [requested |-> TRUE, outcome |-> outcome,
                                        ret |-> CASE outcome = "saved" -> "path"
                                                  [] outcome = "none" -> "None"
                                                  [] outcome = "raise" -> "raised"]

\* one call of download_media by a caller; calls_per_key keeps, for the
\* claims, how many calls each (date, category) has had
DownloadMedia ==
    /\ md_ncalls < MaxCalls
    /\ \E id \in MediaIds, outcome \in {"saved", "none", "raise"} :
          /\ download_media(id, outcome)
          /\ calls_per_key' =
                IF tg_msgs[id].media = NoMedia THEN calls_per_key
                ELSE Incremented(calls_per_key,
                                 <<tg_msgs[id].date, get_media_type(tg_msgs[id].media)>>)
    /\ md_ncalls' = md_ncalls + 1
    /\ UNCHANGED tg_msgs

MediaNext == DownloadMedia

(* ----------------------- claims about the media ----------------------- *)

\* C4: a failed media download (the client returns no file or raises) is
\* reported by download_media as None, so the message is skipped and the run
\* goes on.
C4_MediaFailureSkipped ==
    md_last.outcome \in {"none", "raise"} => md_last.ret = "None"

\* C9: when the target file computed for the message already exists,
\* download_media returns its relative path, does not ask the client and
\* leaves the files as they are.
C9_ExistingFileSkipped ==
    [][ (md_ncalls' = md_ncalls + 1
            /\ \E f \in media_files : f.path = md_last'.path)
        => /\ md_last'.ret = "path"
           /\ ~md_last'.requested
           /\ client_downloads' = client_downloads
           /\ media_files' = media_files ]_vars

\* a call has met a file left by an earlier run, after a call that downloaded
C9_Witness ==
    /\ md_last.existed /\ md_last.ret = "path"
    /\ client_downloads > 0
    /\ \E f \in media_files : f.path = md_last.path /\ f.owner = 0

\* the (date, category) of the message of the last call
LastKey == <<tg_msgs[md_last.id].date, get_media_type(tg_msgs[md_last.id].media)>>

\* C10: the k-th download_media call for a message with media on a given
\* (date, category) uses sequence number k, written with three digits,
\* whatever the calls for other dates and categories.
C10_SequencePerDateAndCategory ==
    (md_last.id # 0 /\ tg_msgs[md_last.id].media # NoMedia) =>
        /\ md_last.seq = calls_per_key[LastKey]
        /\ md_last.path[4] = <<0, 0, calls_per_key[LastKey]>>

\* a second call on one (date, category) after a call on another one
C10_Witness ==
    /\ md_last.seq = 2
    /\ \E k \in DOMAIN calls_per_key : k # LastKey /\ calls_per_key[k] >= 1

(* ========= the media phase of successive download runs (cli.py) ======= *)

\* msg.media_path = None
NoPath == <<>>

\* client.iter_messages without reverse serves the newest message first
NewestFirst(n) == [i \in 1..n |-> n + 1 - i]

\* a fresh output directory and a chat of one message; later messages are
\* not dated before earlier ones
MediaRunsInit ==
    /\ tg_msgs \in {m \in [MediaIds -> [date : Dates, media : Medias]] :
                       \A i, j \in MediaIds : i < j => m[i].date <= m[j].date}
    /\ counters = [k \in {} |-> 0]
    /\ media_files = {}
    /\ md_last = NoCall
    /\ md_ncalls = 0
    /\ calls_per_key = [k \in {} |-> 0]
    /\ client_downloads = 0
    /\ rn_present = 1
    /\ rn_active = FALSE
    /\ rn_sync = FALSE
    /\ rn_queue = <<>>
    /\ rn_runs = 0
    /\ run_paths = [i \in MediaIds |-> NoPath]
    /\ saved_paths = [i \in MediaIds |-> NoPath]
    /\ rn_handed = {}

MediaRunsIdle ==
    /\ rn_present = 0 /\ rn_active = FALSE /\ rn_sync = FALSE /\ rn_queue = <<>>
    /\ rn_runs = 0 /\ run_paths = <<>> /\ saved_paths = <<>> /\ rn_handed = {}

\* the chat gains a message between two runs
ChatGains ==
    /\ ~rn_active /\ rn_present < MaxMediaMsgs
    /\ rn_present' = rn_present + 1
    /\ UNCHANGED <<mediaVars, rn_active, rn_sync, rn_queue, rn_runs, run_paths, saved_paths,
                   rn_handed>>

\* a run reaches its media phase: the message list is the downloaded one, or
\* with --sync the saved messages with their media_path plus the new ones; a
\* new MediaDownloader starts with empty counters
MediaPhaseStart ==
    /\ ~rn_active /\ rn_runs < MaxRuns
    /\ rn_runs' = rn_runs + 1
    /\ rn_active' = TRUE
    /\ \E sync \in BOOLEAN :
          /\ rn_sync' = sync
          /\ run_paths' = IF sync THEN saved_paths ELSE [i \in MediaIds |-> NoPath]
    /\ rn_queue' = NewestFirst(rn_present)
    /\ counters' = [k \in {} |-> 0]
    /\ rn_handed' = {}
    /\ UNCHANGED <<tg_msgs, media_files, md_last, md_ncalls, calls_per_key, client_downloads,
                   rn_present, saved_paths>>

\* one turn of the media loop: a message with media goes to download_media
\* and a returned path becomes its media_path; an error of the client ends
\* the run before anything is exported
MediaLoopStep ==
    /\ rn_active /\ rn_queue # <<>>
    /\ LET id == Head(rn_queue)
       IN IF tg_msgs[id].media = NoMedia
          THEN /\ rn_queue' = Tail(rn_queue)
               /\ UNCHANGED <<counters, media_files, md_last, client_downloads, rn_active,
                              run_paths, rn_handed>>
          ELSE \E outcome \in {"saved", "none", "raise"} :
                 /\ download_media(id, outcome)
                 /\ IF md_last'.ret = "raised"
                    THEN /\ rn_active' = FALSE
                         /\ rn_queue' = <<>>
                         /\ UNCHANGED <<run_paths, rn_handed>>
                    ELSE /\ rn_queue' = Tail(rn_queue)
                         /\ UNCHANGED rn_active
                         /\ IF md_last'.ret = "path"
                            THEN /\ run_paths' = [run_paths EXCEPT ![id] = md_last'.path]
                                 /\ rn_handed' = rn_handed \cup {<<id, md_last'.path>>}
                            ELSE UNCHANGED <<run_paths, rn_handed>>
    /\ UNCHANGED <<tg_msgs, md_ncalls, calls_per_key, rn_present, rn_sync, rn_runs, saved_paths>>

\* the export phase writes the messages with their media_path
MediaRunExport ==
    /\ rn_active /\ rn_queue = <<>>
    /\ saved_paths' = [i \in MediaIds |-> IF i <= rn_present THEN run_paths[i] ELSE NoPath]
    /\ rn_active' = FALSE
    /\ UNCHANGED <<mediaVars, rn_present, rn_sync, rn_queue, rn_runs, run_paths, rn_handed>>

MediaRunsNext == ChatGains \/ MediaPhaseStart \/ MediaLoopStep \/ MediaRunExport

C24_DistinctPathsInRun ==
    \A a, b \in rn_handed : a[1] # b[1] => a[2] # b[2]

\* a run gave two messages of one date and category their paths
C24_Witness ==
    /\ rn_active
    /\ \E a, b \in rn_handed :
          /\ a[1] # b[1]
          /\ tg_msgs[a[1]] = tg_msgs[b[1]]

(* ============== transcribe_voice_message (transcriber.py) ============= *)

\* seconds slept between two polls
PollInterval == 2

\* what a TranscribeAudioRequest answers: the pending flag, and the text,
\* which is None, empty or a (possibly partial) transcription
Texts == {"None", "", "text"}
Results == [pending : BOOLEAN, text : Texts]

TrInit ==
    /\ tr_pc = "call"
    /\ max_wait \in -1..MaxWait
    /\ wait_time = 0
    /\ result = [pending |-> FALSE, text |-> "None"]
    /\ tr_requests = 0
    /\ tr_return = "unset"
    /\ tr_cause = "none"

\* a loop that polls once more when the waited time equals max_wait
KeepsPolling_Inclusive(res, waited, limit) == res.pending /\ waited <= limit

\* the while condition: the latest result is pending and time is left
KeepsPolling(res, waited, limit) == res.pending /\ waited < limit

\* the value returned for the result the loop ended with: getattr(result, "text", None)
ReturnedText(res) == res.text

\* the except clause: any error of a request makes the call return None
TrFail ==
    /\ tr_return' = "None"
    /\ tr_cause' = "error"
    /\ tr_pc' = "done"
    /\ UNCHANGED result

\* the first request
TrRequest ==
    /\ tr_pc = "call"
    /\ tr_requests' = tr_requests + 1
    /\ \/ \E res \in Results :
            /\ result' = res
            /\ tr_pc' = "loop"
            /\ UNCHANGED <<tr_return, tr_cause>>
       \/ TrFail
    /\ UNCHANGED <<max_wait, wait_time>>

\* one turn of the loop: sleep, count the time, ask again
TrPoll ==
    /\ tr_pc = "loop"
    /\ KeepsPolling(result, wait_time, max_wait)
    /\ wait_time' = wait_time + PollInterval
    /\ tr_requests' = tr_requests + 1
    /\ \/ \E res \in Results :
            /\ result' = res
            /\ UNCHANGED <<tr_pc, tr_return, tr_cause>>
       \/ TrFail
    /\ UNCHANGED max_wait

\* the loop is left: return the text of the latest result
TrReturn ==
    /\ tr_pc = "loop"
    /\ ~KeepsPolling(result, wait_time, max_wait)
    /\ tr_return' = ReturnedText(result)
    /\ tr_cause' = IF result.pending THEN "timeout"
                   ELSE IF result.text = "None" THEN "no_text"
                   ELSE "answered"
    /\ tr_pc' = "done"
    /\ UNCHANGED <<max_wait, wait_time, result, tr_requests>>

TrNext == TrRequest \/ TrPoll \/ TrReturn

(* -------------------- claims about the transcription ------------------ *)

\* C5: a transcription that fails (an error raised by the client, no result
\* text, or a timeout) makes transcribe_voice_message return None, so the
\* message is skipped and counted as failed.
C5_FailedTranscriptionIsNone ==
    (tr_pc = "done" /\ tr_cause \in {"error", "no_text", "timeout"})
        => tr_return = "None"

\* C8: a transcription still pending when max_wait seconds of polling have
\* elapsed makes transcribe_voice_message return None, whatever the last
\* pending result carries.
C8_TimeoutReturnsNone ==
    (tr_pc = "done" /\ tr_cause = "timeout" /\ tr_requests > 1 /\ wait_time >= max_wait)
        => tr_return = "None"

\* ceil(max_wait / PollInterval) for a positive max_wait, 0 otherwise
MaxPolls == IF max_wait <= 0 THEN 0 ELSE (max_wait + PollInterval - 1) \div PollInterval

\* C21: transcribe_voice_message terminates when every request is answered;
\* it sends at most 1 + ceil(max_wait / 2) requests (one when
\* max_wait <= 0), each re-request follows a 2-second sleep and is made only
\* while the latest result is pending and the waited time is below max_wait.
C21_PollingTerminates ==
    /\ [](tr_requests <= 1 + MaxPolls)
    /\ [][tr_requests' > tr_requests /\ tr_requests >= 1 =>
            /\ result.pending /\ wait_time < max_wait
            /\ wait_time' = wait_time + 2
            /\ tr_requests' = tr_requests + 1]_vars
    /\ <>(tr_pc = "done")

\* a call that polled until max_wait = 5 was used up
C21_Witness ==
    /\ tr_pc = "done" /\ max_wait = 5 /\ tr_requests = 4 /\ wait_time = 6

(* ================== generate_metadata (exporter.py) =================== *)

MediaTypeNames == {"None", "photo", "audio"}

\* a Message, reduced to the fields generate_metadata reads; media_path TRUE
\* stands for a path, FALSE for None
MetaMsg == [date : Dates, media_type : MediaTypeNames, media_path : BOOLEAN]

RECURSIVE CountMedia(_, _)
\* number of messages of the list counted under one media_files key
CountMedia(ms, type) ==
    IF ms = <<>> THEN 0
    ELSE (IF Head(ms).media_type = type /\ Head(ms).media_path THEN 1 ELSE 0)
         + CountMedia(Tail(ms), type)

RECURSIVE MinOf(_)
MinOf(S) == IF S = {} THEN 0
            ELSE LET x == CHOOSE y \in S : TRUE
                 IN IF S = {x} THEN x
                    ELSE LET m == MinOf(S \ {x}) IN IF x < m THEN x ELSE m

\* total_messages counting only the messages with a media file
generate_metadata_MediaOnly(ms) ==
    [written |-> TRUE,
     total_messages |-> CountMedia(ms, "photo") + CountMedia(ms, "audio")
                        + CountMedia(ms, "video") + CountMedia(ms, "document"),
     media_files |-> [images |-> CountMedia(ms, "photo"),
                      audio |-> CountMedia(ms, "audio"),
                      video |-> CountMedia(ms, "video"),
                      documents |-> CountMedia(ms, "document")],
     date_range |-> [from |-> MinOf({ms[i].date : i \in DOMAIN ms}),
                     to |-> MaxOf({ms[i].date : i \in DOMAIN ms})]]

\* exporter.generate_metadata: the record written to metadata.json
\* (0 in date_range stands for null)
generate_metadata(ms) ==
    [written |-> TRUE,
     total_messages |-> Len(ms),
     media_files |-> [images |-> CountMedia(ms, "photo"),
                      audio |-> CountMedia(ms, "audio"),
                      video |-> CountMedia(ms, "video"),
                      documents |-> CountMedia(ms, "document")],
     date_range |-> [from |-> MinOf({ms[i].date : i \in DOMAIN ms}),
                     to |-> MaxOf({ms[i].date : i \in DOMAIN ms})]]

NoMetadata ==
    [written |-> FALSE, total_messages |-> 0,
     media_files |-> [images |-> 0, audio |-> 0, video |-> 0, documents |-> 0],
     date_range |-> [from |-> 0, to |-> 0]]

MetaInit ==
    /\ meta_in \in SeqsUpTo(MetaMsg, MaxMetaMsgs)
    /\ metadata = NoMetadata

GenerateMetadata ==
    /\ ~metadata.written
    /\ metadata' = generate_metadata(meta_in)
    /\ UNCHANGED meta_in

MetaNext == GenerateMetadata

\* C7: generate_metadata called with a list of N messages (N = 0 included)
\* writes metadata.json with total_messages = N.
C7_TotalMessages ==
    metadata.written => metadata.total_messages = Len(meta_in)

\* metadata written for a list of two messages of which one has no media
C7_Witness ==
    /\ metadata.written /\ Len(meta_in) = 2 /\ metadata.total_messages = 2
    /\ \E i \in DOMAIN meta_in : ~meta_in[i].media_path

(* == _download_async from the merge to the export (cli.py, exporter.py) == *)

\* fields of the Message dataclass
MessageFields ==
    {"id", "date", "sender_id", "sender_name", "text", "reply_to", "media_type",
     "media_path"}

\* keywords dict_to_message passes to Message(...)
dict_to_message_kwargs == MessageFields \cup {"transcription"}

\* transcription of a Message object on which the attribute was never set
Unset == "unset"

\* a Message is reduced to id, date, media_type, media_path (TRUE for a
\* path, FALSE for None) and the transcription attribute

\* lists download_messages collects from parse_message for a chat holding
\* the messages 1..n, message i sent on day i: newest first, no media path
\* and no transcription attribute
FetchedLists ==
    UNION {{[i \in 1..n |->
               [id |-> n + 1 - i, date |-> n + 1 - i, media_type |-> t[i],
                media_path |-> FALSE, transcription |-> Unset]] :
             t \in [1..n -> MediaTypeNames]} : n \in 0..MaxFetched}

\* lists an earlier run exported, oldest first: every message had got a
\* transcription
ExportedLists ==
    UNION {{[i \in 1..n |->
               [id |-> i, date |-> i, media_type |-> "audio",
                media_path |-> p[i], transcription |-> "text"]] :
             p \in [1..n -> BOOLEAN]} : n \in 0..MaxFetched}

PhaseOptions == [sync : BOOLEAN, media : BOOLEAN, transcribe : BOOLEAN]

RECURSIVE InsertByDate(_, _)
\* m placed after the last element whose date is not later
InsertByDate(m, s) ==
    IF s = <<>> THEN <<m>>
    ELSE IF s[Len(s)].date <= m.date THEN Append(s, m)
    ELSE Append(InsertByDate(m, SubSeq(s, 1, Len(s) - 1)), s[Len(s)])

RECURSIVE SortByDate(_)
\* sorted(ms, key=lambda m: m.date) and list.sort(key=...): stable
SortByDate(ms) ==
    IF ms = <<>> THEN <<>>
    ELSE InsertByDate(ms[Len(ms)], SortByDate(SubSeq(ms, 1, Len(ms) - 1)))

\* exporter.dict_to_message: the Message built from a stored dict
dict_to_message(d) ==
    [id |-> d.id, date |-> d.date, media_type |-> d.media_type,
     media_path |-> d.media_path, transcription |-> d.transcription]

\* exporter.message_to_dict: the dict stored for a Message
message_to_dict(msg) ==
    [id |-> msg.id, date |-> msg.date, media_type |-> msg.media_type,
     media_path |-> msg.media_path, transcription |-> msg.transcription]

\* reading msg.transcription raises AttributeError for some message of the list
LacksTranscription(ms) == \E i \in DOMAIN ms : ms[i].transcription = Unset

\* the merge of cli.py:397-411: stored messages, then the fetched ones with
\* a new ID, sorted by date
Merged(saved, fetched) ==
    LET existing_messages == [i \in DOMAIN saved |-> dict_to_message(saved[i])]
        new_unique == SelectSeq(fetched, LAMBDA m : m.id \notin IdsOf(existing_messages))
    IN SortByDate(existing_messages \o new_unique)

\* messages.md with the header counting the media files
export_to_markdown_CountsMedia(ms) ==
    [exists |-> TRUE,
     total |-> CountMedia(ms, "photo") + CountMedia(ms, "audio")]

\* exporter.export_to_markdown: the header line 'Total messages'
export_to_markdown(ms) == [exists |-> TRUE, total |-> Len(ms)]

\* exporter.export_messages_to_json: message_count and the messages array
export_messages_to_json(ms) ==
    [exists |-> TRUE, message_count |-> Len(ms),
     messages |-> LET sorted == SortByDate(ms)
                  IN [i \in DOMAIN sorted |-> message_to_dict(sorted[i])]]

\* the export written messages.json first
ExportOrder_JsonFirst == <<"messages.json", "messages.md", "metadata.json">>

\* order of the three exports at the end of _download_async
ExportOrder == <<"messages.md", "messages.json", "metadata.json">>

NoJson == [exists |-> FALSE, message_count |-> 0, messages |-> <<>>]
NoMd == [exists |-> FALSE, total |-> 0]
NoOptions == [sync |-> FALSE, media |-> FALSE, transcribe |-> FALSE]

\* a chat output directory that is empty or holds the three files an
\* earlier run exported, no run started yet
PhasesInit ==
    /\ ph_pc = "start"
    /\ ph_opts = NoOptions
    /\ ph_saved = <<>>
    /\ ph_msgs = <<>>
    /\ \/ ph_json = NoJson /\ ph_md = NoMd /\ ph_meta = NoMetadata
       \/ \E ms \in ExportedLists :
            /\ ph_md = export_to_markdown(ms)
            /\ ph_json = export_messages_to_json(ms)
            /\ ph_meta = generate_metadata(ms)
    /\ ph_failed = "none"
    /\ ph_written = <<>>

PhasesIdle ==
    /\ ph_pc = "idle"
    /\ ph_opts = NoOptions
    /\ ph_saved = <<>>
    /\ ph_msgs = <<>>
    /\ ph_json = NoJson
    /\ ph_md = NoMd
    /\ ph_meta = NoMetadata
    /\ ph_failed = "none"
    /\ ph_written = <<>>

\* the run fails in a phase: the exception leaves _download_async
PhaseFails(phase) ==
    /\ ph_pc' = "failed"
    /\ ph_failed' = phase

\* a download run up to the end of the message download: the options, the
\* stored dicts loaded in sync mode and the list collected from the downloader
PhaseStart ==
    /\ ph_pc = "start"
    /\ \E o \in PhaseOptions, fetched \in FetchedLists :
         /\ ph_opts' = o
         /\ ph_saved' = IF o.sync THEN load_existing_messages(ph_json)[1] ELSE <<>>
         /\ ph_msgs' = fetched
    /\ ph_pc' = "merge"
    /\ UNCHANGED <<ph_json, ph_md, ph_meta, ph_failed, ph_written>>

\* cli.py:396-411: in sync mode with stored dicts, messages becomes the
\* merged list; Message(...) rejects a keyword that is no field
PhaseMerge ==
    /\ ph_pc = "merge"
    /\ IF ph_opts.sync /\ ph_saved # <<>>
       THEN IF Binds(dict_to_message_kwargs, MessageFields)
            THEN /\ ph_msgs' = Merged(ph_saved, ph_msgs)
                 /\ ph_pc' = "media"
                 /\ UNCHANGED ph_failed
            ELSE /\ PhaseFails("merge")
                 /\ UNCHANGED ph_msgs
       ELSE /\ ph_pc' = "media"
            /\ UNCHANGED <<ph_msgs, ph_failed>>
    /\ UNCHANGED <<ph_opts, ph_saved, ph_json, ph_md, ph_meta, ph_written>>

\* cli.py:413-452: with media enabled and a non-empty list, every message
\* the client serves with media and that is in the list gets the path
\* download_media returns, if it returns one; client.iter_messages may raise
PhaseMedia ==
    /\ ph_pc = "media"
    /\ IF ph_opts.media /\ ph_msgs # <<>>
       THEN \E outcome \in {"served", "error"} :
              IF outcome = "error"
              THEN /\ PhaseFails("media")
                   /\ UNCHANGED ph_msgs
              ELSE /\ \E got \in SUBSET {ph_msgs[i].id : i \in DOMAIN ph_msgs} :
                        ph_msgs' = [i \in DOMAIN ph_msgs |->
                                      IF ph_msgs[i].id \in got /\ ph_msgs[i].media_type # "None"
                                      THEN [ph_msgs[i] EXCEPT !.media_path = TRUE]
                                      ELSE ph_msgs[i]]
                   /\ ph_pc' = "transcribe"
                   /\ UNCHANGED ph_failed
       ELSE /\ ph_pc' = "transcribe"
            /\ UNCHANGED <<ph_msgs, ph_failed>>
    /\ UNCHANGED <<ph_opts, ph_saved, ph_json, ph_md, ph_meta, ph_written>>

\* cli.py:455-497: with transcription enabled, every audio message for which
\* transcribe_voice_message returns a non-empty text gets it as transcription
\* (document voice notes with an .ogg path are not among the media types here)
PhaseTranscribe ==
    /\ ph_pc = "transcribe"
    /\ IF ph_opts.transcribe /\ ph_msgs # <<>>
       THEN \E heard \in SUBSET {ph_msgs[i].id : i \in DOMAIN ph_msgs} :
              ph_msgs' = [i \in DOMAIN ph_msgs |->
                            IF ph_msgs[i].id \in heard /\ ph_msgs[i].media_type = "audio"
                            THEN [ph_msgs[i] EXCEPT !.transcription = "text"]
                            ELSE ph_msgs[i]]
       ELSE UNCHANGED ph_msgs
    /\ ph_pc' = "export"
    /\ UNCHANGED <<ph_opts, ph_saved, ph_json, ph_md, ph_meta, ph_failed, ph_written>>

\* cli.py:499-533: the next export of ExportOrder; format_message and
\* message_to_dict read msg.transcription, generate_metadata does not
PhaseExport ==
    /\ ph_pc = "export"
    /\ LET file == ExportOrder[Len(ph_written) + 1]
       IN IF file # "metadata.json" /\ LacksTranscription(ph_msgs)
          THEN /\ PhaseFails(file)
               /\ UNCHANGED <<ph_json, ph_md, ph_meta, ph_written>>
          ELSE /\ ph_md' = IF file = "messages.md" THEN export_to_markdown(ph_msgs)
                           ELSE ph_md
               /\ ph_json' = IF file = "messages.json" THEN export_messages_to_json(ph_msgs)
                             ELSE ph_json
               /\ ph_meta' = IF file = "metadata.json" THEN generate_metadata(ph_msgs)
                             ELSE ph_meta
               /\ ph_written' = Append(ph_written, file)
               /\ ph_pc' = IF Len(ph_written) + 1 = Len(ExportOrder) THEN "done" ELSE "export"
               /\ UNCHANGED ph_failed
    /\ UNCHANGED <<ph_opts, ph_saved, ph_msgs>>

PhasesNext == PhaseStart \/ PhaseMerge \/ PhaseMedia \/ PhaseTranscribe \/ PhaseExport

(* ---------------- claims about the phases of a download ---------------- *)

\* a finished --sync run that loaded stored messages and whose client
\* answered every request
SyncRunOverStored ==
    /\ ph_pc \in {"done", "failed"}
    /\ ph_opts.sync /\ ph_saved # <<>>
    /\ ph_failed # "media"

ExportFiles == <<ph_md, ph_json, ph_meta>>

\* C26: a run that fails in the merge or media phase (the transcription
\* phase cannot fail) has written none of messages.md, messages.json and
\* metadata.json; the files change only in the export phase, after every
\* earlier phase has completed, one file per step in the order messages.md,
\* messages.json, metadata.json.
C26_ExportAfterAllPhases ==
    /\ [](ph_failed \in {"merge", "media"} => ph_written = <<>>)
    /\ [](ph_written = SubSeq(<<"messages.md", "messages.json", "metadata.json">>,
                              1, Len(ph_written)))
    /\ [][ExportFiles' # ExportFiles \/ ph_written' # ph_written =>
              /\ ph_pc = "export" /\ ph_failed' = "none"
              /\ Len(ph_written') = Len(ph_written) + 1
              /\ (ph_md' # ph_md => ph_written'[Len(ph_written')] = "messages.md")
              /\ (ph_json' # ph_json => ph_written'[Len(ph_written')] = "messages.json")
              /\ (ph_meta' # ph_meta => ph_written'[Len(ph_written')] = "metadata.json")]_vars

\* a run over a directory with all three files failed in the media phase
C26_Witness ==
    /\ ph_pc = "failed" /\ ph_failed = "media" /\ ph_written = <<>>
    /\ ph_md.exists /\ ph_json.exists /\ ph_meta.written
    /\ ph_json.message_count > 0

\* C27: after a successful run message_count and the length of the messages
\* array of messages.json, total_messages of metadata.json and the 'Total
\* messages' line of messages.md are equal, and the media_files counters of
\* metadata.json sum to at most that count.
C27_CountsAgree ==
    ph_pc = "done" =>
        /\ ph_json.message_count = Len(ph_json.messages)
        /\ ph_meta.total_messages = ph_json.message_count
        /\ ph_md.total = ph_json.message_count
        /\ ph_meta.media_files.images + ph_meta.media_files.audio
           + ph_meta.media_files.video + ph_meta.media_files.documents
             <= ph_json.message_count

\* a successful run exported two messages of which one has a media file
C27_Witness ==
    /\ ph_pc = "done" /\ ph_json.message_count = 2
    /\ ph_meta.media_files.audio = 1

(* ======== MessageDownloader.download_messages (downloader.py) ========= *)

\* keywords a caller may add to chat=: the declared ones that change what is
\* yielded, stored or reported, and the two the CLI and the tests pass
CallKeywords == {"from_date", "store", "progress_callback", "reverse", "min_id"}

\* a call: the keywords given and the values of from_date and min_id
\* (reverse, store and progress_callback are given as True / a callback)
Calls == {c \in [kwargs : SUBSET CallKeywords, from_date : Dates, min_id : 0..1] :
             /\ "from_date" \notin c.kwargs => c.from_date = 1
             /\ "min_id" \notin c.kwargs => c.min_id = 0}

NoCallYet == [kwargs |-> {}, from_date |-> 1, min_id |-> 0]

DlInit ==
    /\ dl_pc = "idle"
    /\ dl_call = NoCallYet
    /\ dl_feed \in SeqsUpTo(Dates, MaxFeed)
    /\ dl_pos = 0
    /\ batch_size \in 1..MaxBatch
    /\ dl_count = 0
    /\ batch_count = 0
    /\ dl_yielded = <<>>
    /\ dl_stored = <<>>
    /\ dl_reported = <<>>
    /\ dl_delays = 0
    /\ dl_request = NoRequest
    /\ dl_exc = "none"

DlIdle ==
    /\ dl_pc = "off" /\ dl_call = NoCallYet /\ dl_feed = <<>> /\ dl_pos = 0
    /\ batch_size = 1 /\ dl_count = 0 /\ batch_count = 0 /\ dl_yielded = <<>>
    /\ dl_stored = <<>> /\ dl_reported = <<>> /\ dl_delays = 0
    /\ dl_request = NoRequest /\ dl_exc = "none"

\* the from_date test taken to skip the messages dated from_date as well
FilteredOut_Inclusive(call, date) == "from_date" \in call.kwargs /\ date <= call.from_date

\* the from_date test of the loop: the message is skipped
FilteredOut(call, date) == "from_date" \in call.kwargs /\ date < call.from_date

\* a rate limiter that sleeps one message late
BatchFull_Late(bc, size) == bc + 1 > size

\* the rate limiter after a yield: batch_count + 1 reaches batch_size
BatchFull(bc, size) == bc + 1 >= size

\* download_messages(chat=, ...): the keywords are bound to the declared
\* parameters, then client.iter_messages(chat, offset_date=, limit=) is started
DlCall ==
    /\ dl_pc = "idle"
    /\ \E call \in Calls :
         /\ dl_call' = call
         /\ IF Binds({"chat"} \cup call.kwargs, download_messages_params)
            THEN /\ dl_request' = iter_messages_request
                 /\ dl_pc' = "iter"
                 /\ UNCHANGED dl_exc
            ELSE /\ dl_exc' = "TypeError"
                 /\ dl_pc' = "raised"
                 /\ UNCHANGED dl_request
    /\ UNCHANGED <<dl_feed, dl_pos, batch_size, dl_count, batch_count, dl_yielded,
                   dl_stored, dl_reported, dl_delays>>

\* the loop takes the next message of the client: it is skipped, or counted,
\* stored, reported and yielded; the generator ends with the client's iterator
DlTake ==
    /\ dl_pc = "iter"
    /\ IF dl_pos = Len(dl_feed)
       THEN /\ dl_pc' = "done"
            /\ UNCHANGED <<dl_pos, dl_count, dl_yielded, dl_stored, dl_reported>>
       ELSE /\ dl_pos' = dl_pos + 1
            /\ IF FilteredOut(dl_call, dl_feed[dl_pos + 1])
               THEN UNCHANGED <<dl_pc, dl_count, dl_yielded, dl_stored, dl_reported>>
               ELSE /\ dl_count' = dl_count + 1
                    /\ dl_stored' = IF "store" \in dl_call.kwargs
                                    THEN Append(dl_stored, dl_pos + 1) ELSE dl_stored
                    /\ dl_reported' = IF "progress_callback" \in dl_call.kwargs
                                      THEN Append(dl_reported, dl_pos + 1) ELSE dl_reported
                    /\ dl_yielded' = Append(dl_yielded, dl_pos + 1)
                    /\ dl_pc' = "yielded"
    /\ UNCHANGED <<dl_call, dl_feed, batch_size, batch_count, dl_delays, dl_request, dl_exc>>

\* the consumer asks for the next message: the code after the yield runs
DlResume ==
    /\ dl_pc = "yielded"
    /\ IF BatchFull(batch_count, batch_size)
       THEN batch_count' = 0 /\ dl_delays' = dl_delays + 1
       ELSE batch_count' = batch_count + 1 /\ UNCHANGED dl_delays
    /\ dl_pc' = "iter"
    /\ UNCHANGED <<dl_call, dl_feed, dl_pos, batch_size, dl_count, dl_yielded,
                   dl_stored, dl_reported, dl_request, dl_exc>>

\* the consumer stops iterating after a message (break): the generator is closed
DlClose ==
    /\ dl_pc = "yielded"
    /\ dl_pc' = "closed"
    /\ UNCHANGED <<dl_call, dl_feed, dl_pos, batch_size, dl_count, batch_count, dl_yielded,
                   dl_stored, dl_reported, dl_delays, dl_request, dl_exc>>

DlNext == DlCall \/ DlTake \/ DlResume \/ DlClose

(* --------------------- claims about the downloader -------------------- *)

\* positions of the feed taken so far that pass the from_date filter
Passing == {i \in 1..dl_pos :
               ~("from_date" \in dl_call.kwargs /\ dl_feed[i] < dl_call.from_date)}

\* the increasing enumeration of a set of positions
RECURSIVE InOrder(_)
InOrder(S) == IF S = {} THEN <<>>
              ELSE LET m == CHOOSE x \in S : \A y \in S : x <= y
                   IN <<m>> \o InOrder(S \ {m})

\* C11: when the iteration is consumed to the end and n messages were
\* yielded, exactly floor(n / batch_size) delays have been made; messages
\* filtered out by from_date do not count.
C11_DelaysPerBatch ==
    dl_pc = "done" => dl_delays = Len(dl_yielded) \div batch_size

\* an iteration consumed to the end with a skipped message, a full batch
\* and a partial one
C11_Witness ==
    /\ dl_pc = "done" /\ dl_delays = 1 /\ batch_size = 2
    /\ Len(dl_yielded) = 3 /\ Len(dl_feed) = 4

\* C12: with from_date set, no message dated before from_date is yielded,
\* stored or reported, and every message of the client dated at or after
\* from_date is yielded, in the client's order.
C12_FromDateFilter ==
    (dl_pc \in {"iter", "yielded", "done", "closed"} /\ "from_date" \in dl_call.kwargs) =>
        /\ \A i \in Range(dl_yielded) \cup Range(dl_stored) \cup Range(dl_reported) :
              dl_feed[i] >= dl_call.from_date
        /\ dl_yielded = InOrder(Passing)
        /\ ("store" \in dl_call.kwargs => dl_stored = dl_yielded)
        /\ ("progress_callback" \in dl_call.kwargs => dl_reported = dl_yielded)

\* an iteration that skipped a message between two yielded ones
C12_Witness ==
    /\ dl_pc = "done" /\ "from_date" \in dl_call.kwargs
    /\ "store" \in dl_call.kwargs /\ "progress_callback" \in dl_call.kwargs
    /\ \E i, j, k \in 1..Len(dl_feed) :
          /\ i < j /\ j < k
          /\ i \in Range(dl_yielded) /\ j \notin Range(dl_yielded) /\ k \in Range(dl_yielded)

\* C13: download_messages forwards reverse=True and min_id=k to
\* client.iter_messages, and passes neither by default.
C13_ReverseAndMinIdForwarded ==
    dl_pc # "idle" =>
        /\ dl_request.called
        /\ dl_request.reverse = ("reverse" \in dl_call.kwargs)
        /\ dl_request.min_id = (IF "min_id" \in dl_call.kwargs THEN dl_call.min_id ELSE NoneInt)

(* ========================= TelegramAuth (auth.py) ===================== *)

\* self.client = None
NoClient == 0

NoExc == [type |-> "none", msg |-> "none", cause |-> "none", missing |-> <<>>]

\* int(self.api_id) succeeds
Numeric(v) == v = "12345"

\* the except clauses of connect taken in the wrong order: ValueError falls
\* to the generic clause
ErrorOf_ValueErrorGeneric(cause) ==
    IF cause = "ConnectionError" THEN "network" ELSE "failed"

\* the except clauses of connect: the message chosen for the caught exception
ErrorOf(cause) ==
    IF cause = "ConnectionError" THEN "network"
    ELSE IF cause = "ValueError" THEN "invalid"
    ELSE "failed"

\* raise AuthenticationError(msg) from e
ConnectError(cause) ==
    [type |-> "AuthenticationError", msg |-> ErrorOf(cause), cause |-> cause,
     missing |-> <<>>]

\* a guard that takes None for a client
NotConnected_Never(c) == FALSE

\* "if not self.client" of disconnect, is_authorized and get_me
NotConnected(c) == c = NoClient

\* an exit that disconnects only when the body ended normally
ExitDisconnects_OnSuccessOnly(body_exc) == body_exc = "none"

\* __aexit__ awaits self.disconnect() whatever exc_type is
ExitDisconnects(body_exc) == TRUE

AuthInit ==
    /\ env \in [API_ID : ApiIdValues, API_HASH : ApiHashValues]
    /\ au_obj = FALSE
    /\ au_client = NoClient
    /\ au_made = 0
    /\ au_open = {}
    /\ au_started = {}
    /\ au_disconnects = <<>>
    /\ au_op = "none"
    /\ au_ret = "none"
    /\ au_exc = NoExc
    /\ au_exit = NoneInt
    /\ ctx = "out"
    /\ ctx_client = NoClient
    /\ ctx_body = "none"
    /\ ctx_out = "none"

AuthIdle ==
    /\ env = [API_ID |-> "None", API_HASH |-> "None"]
    /\ au_obj = FALSE /\ au_client = NoClient /\ au_made = 0 /\ au_open = {}
    /\ au_started = {}
    /\ au_disconnects = <<>> /\ au_op = "off" /\ au_ret = "none" /\ au_exc = NoExc
    /\ au_exit = NoneInt /\ ctx = "out" /\ ctx_client = NoClient
    /\ ctx_body = "none" /\ ctx_out = "none"

\* auth = TelegramAuth() inside a command: the credentials are read and
\* validated; AuthenticationError ends the command through its handler
AuConstruct ==
    /\ ~au_obj /\ au_op = "none"
    /\ au_op' = "__init__"
    /\ LET missing == validate_credentials(env.API_ID, env.API_HASH)
       IN IF missing = <<>>
          THEN /\ au_obj' = TRUE
               /\ au_exc' = NoExc
               /\ UNCHANGED au_exit
          ELSE /\ au_exc' = [type |-> "AuthenticationError", msg |-> "missing",
                             cause |-> "none", missing |-> missing]
               /\ au_exit' = ExitCodeOf("AuthenticationError")
               /\ UNCHANGED au_obj
    /\ au_client' = NoClient
    /\ au_ret' = "none"
    /\ UNCHANGED <<env, au_made, au_open, au_started, au_disconnects, ctx, ctx_client, ctx_body, ctx_out>>

\* the body of connect: int(api_id), TelegramClient(...), client.start();
\* a failed start may leave the new client's connection open
connect(outcome, left_open) ==
    IF ~Numeric(env.API_ID)
    THEN /\ au_client' = NoClient
         /\ au_exc' = ConnectError("ValueError")
         /\ au_ret' = "none"
         /\ UNCHANGED <<au_made, au_open, au_started>>
    ELSE /\ au_made' = au_made + 1
         /\ IF outcome = "ok"
            THEN /\ au_client' = au_made + 1
                 /\ au_open' = au_open \cup {au_made + 1}
                 /\ au_started' = au_started \cup {au_made + 1}
                 /\ au_exc' = NoExc
                 /\ au_ret' = "client"
            ELSE /\ au_client' = NoClient
                 /\ au_open' = IF left_open THEN au_open \cup {au_made + 1} ELSE au_open
                 /\ UNCHANGED au_started
                 /\ au_exc' = ConnectError(outcome)
                 /\ au_ret' = "none"

\* the body of disconnect: nothing without a client, else client.disconnect()
\* and client = None; an error of client.disconnect() skips the assignment
disconnect(outcome) ==
    IF NotConnected(au_client)
    THEN /\ au_exc' = NoExc
         /\ UNCHANGED <<au_client, au_open, au_started, au_disconnects>>
    ELSE /\ au_disconnects' = Append(au_disconnects, au_client)
         /\ IF outcome = "ok"
            THEN /\ au_client' = NoClient
                 /\ au_open' = au_open \ {au_client}
                 /\ au_started' = au_started \ {au_client}
                 /\ au_exc' = NoExc
            ELSE /\ au_exc' = [type |-> "Exception", msg |-> "client", cause |-> "none",
                               missing |-> <<>>]
                 /\ UNCHANGED <<au_client, au_open, au_started>>

ConnectOutcomes == {"ok", "ConnectionError", "ValueError", "Exception"}

\* the caller is outside an "async with auth" statement
Outside == ctx \in {"out", "exited"}

\* the client can still be asked to disconnect within the bound
MayDisconnect == NotConnected(au_client) \/ Len(au_disconnects) < MaxDisconnects

AuConnect ==
    /\ au_obj /\ Outside /\ au_made < MaxClients
    /\ au_op' = "connect"
    /\ \E outcome \in ConnectOutcomes, left_open \in BOOLEAN : connect(outcome, left_open)
    /\ UNCHANGED <<env, au_obj, au_disconnects, au_exit, ctx, ctx_client, ctx_body, ctx_out>>

AuDisconnect ==
    /\ au_obj /\ Outside /\ MayDisconnect
    /\ au_op' = "disconnect"
    /\ \E outcome \in {"ok", "error"} : disconnect(outcome)
    /\ au_ret' = "None"
    /\ UNCHANGED <<env, au_obj, au_made, au_exit, ctx, ctx_client, ctx_body, ctx_out>>

\* is_authorized: False without a client, else the client's answer
AuIsAuthorized ==
    /\ au_obj /\ ctx # "leaving"
    /\ au_op' = "is_authorized"
    /\ au_exc' = NoExc
    /\ \E answer \in {"True", "False"} :
         au_ret' = IF NotConnected(au_client) THEN "False" ELSE answer
    /\ UNCHANGED <<env, au_obj, au_client, au_made, au_open, au_started, au_disconnects, au_exit,
                   ctx, ctx_client, ctx_body, ctx_out>>

\* get_me: AuthenticationError without a client, else the client's user
AuGetMe ==
    /\ au_obj /\ ctx # "leaving"
    /\ au_op' = "get_me"
    /\ IF NotConnected(au_client)
       THEN /\ au_exc' = [type |-> "AuthenticationError", msg |-> "not_connected",
                          cause |-> "none", missing |-> <<>>]
            /\ au_ret' = "none"
       ELSE /\ au_exc' = NoExc
            /\ au_ret' = "user"
    /\ UNCHANGED <<env, au_obj, au_client, au_made, au_open, au_started, au_disconnects, au_exit,
                   ctx, ctx_client, ctx_body, ctx_out>>

\* async with auth: __aenter__ returns await self.connect(); when it raises,
\* the body and __aexit__ do not run
AuEnter ==
    /\ au_obj /\ Outside /\ au_made < MaxClients
    /\ au_op' = "__aenter__"
    /\ \E outcome \in ConnectOutcomes, left_open \in BOOLEAN : connect(outcome, left_open)
    /\ ctx_body' = "none"
    /\ IF au_exc' = NoExc
       THEN ctx' = "body" /\ ctx_client' = au_client' /\ ctx_out' = "none"
       ELSE ctx' = "out" /\ ctx_client' = NoClient /\ ctx_out' = au_exc'.type
    /\ UNCHANGED <<env, au_obj, au_disconnects, au_exit>>

\* the body of the statement ends, normally or with an exception
AuBody ==
    /\ ctx = "body"
    /\ au_op' = "body"
    /\ ctx' = "leaving"
    /\ \E e \in {"none", "ValueError"} : ctx_body' = e
    /\ UNCHANGED <<env, au_obj, au_client, au_made, au_open, au_started, au_disconnects, au_ret,
                   au_exc, au_exit, ctx_client, ctx_out>>

\* __aexit__: await self.disconnect(); it returns None, so the body's
\* exception is re-raised, unless disconnect itself raised
AuExit ==
    /\ ctx = "leaving" /\ MayDisconnect
    /\ au_op' = "__aexit__"
    /\ IF ExitDisconnects(ctx_body)
       THEN \E outcome \in {"ok", "error"} : disconnect(outcome)
       ELSE au_exc' = NoExc /\ UNCHANGED <<au_client, au_open, au_started, au_disconnects>>
    /\ au_ret' = "None"
    /\ ctx' = "exited"
    /\ ctx_out' = IF au_exc' # NoExc THEN au_exc'.type ELSE ctx_body
    /\ UNCHANGED <<env, au_obj, au_made, au_exit, ctx_client, ctx_body>>

AuthNext ==
    \/ AuConstruct \/ AuConnect \/ AuDisconnect \/ AuIsAuthorized \/ AuGetMe
    \/ AuEnter \/ AuBody \/ AuExit

(* ---------------------- claims about TelegramAuth --------------------- *)

\* number of disconnect() calls made on client c
DisconnectCalls(c) == Cardinality({i \in 1..Len(au_disconnects) : au_disconnects[i] = c})

MissingInEnv == {v \in {"API_ID", "API_HASH"} : env[v] = "None" \/ env[v] = ""}

\* C16: TelegramAuth() raises AuthenticationError exactly when API_ID or
\* API_HASH is absent or empty; the message names exactly those variables,
\* no object and no client exist, and the command exits with a non-zero code.
C16_MissingCredentials ==
    au_op = "__init__" =>
        /\ (MissingInEnv # {}) <=> (au_exc.type = "AuthenticationError")
        /\ MissingInEnv = {} => au_obj /\ au_exc = NoExc
        /\ MissingInEnv # {} =>
              /\ au_exc.msg = "missing"
              /\ Range(au_exc.missing) = MissingInEnv
              /\ Len(au_exc.missing) = Cardinality(MissingInEnv)
              /\ ~au_obj /\ au_client = NoClient /\ au_made = 0
              /\ au_exit # NoneInt /\ au_exit # 0

\* construction failed on an empty API_ID next to a valid API_HASH
C16_Witness ==
    /\ au_op = "__init__" /\ env.API_ID = "" /\ env.API_HASH = "abc123hash"
    /\ au_exc.missing = <<"API_ID">> /\ au_exit = 1

C30_OneStartedClient == Cardinality(au_started) <= 1

(* ================= load_existing_messages (exporter.py) =============== *)

\* messages.json: absent, without a "messages" key, or with an array of
\* message dicts in any order
LoadFiles ==
    {[exists |-> FALSE, messages |-> <<>>], [exists |-> TRUE]} \cup
    {[exists |-> TRUE, messages |-> ms] : ms \in SeqsUpTo(MsgRec, MaxLoad)}

NoLoad == << <<>>, NoneInt >>

LoadInit ==
    /\ ld_file \in LoadFiles
    /\ ld_pc = "call"
    /\ ld_ret = NoLoad

LoadIdle ==
    /\ ld_file = [exists |-> FALSE, messages |-> <<>>]
    /\ ld_pc = "off"
    /\ ld_ret = NoLoad

LoadExisting ==
    /\ ld_pc = "call"
    /\ ld_ret' = load_existing_messages(ld_file)
    /\ ld_pc' = "done"
    /\ UNCHANGED ld_file

LoadNext == LoadExisting

\* C18: load_existing_messages returns ([], 0) for an absent file and for an
\* empty or missing messages array; otherwise it returns the stored dicts
\* unchanged in file order with the maximum of their IDs.
C18_LoadExisting ==
    ld_pc = "done" =>
        IF \/ ~ld_file.exists
           \/ "messages" \notin DOMAIN ld_file
           \/ Len(ld_file.messages) = 0
        THEN ld_ret = << <<>>, 0 >>
        ELSE /\ ld_ret[1] = ld_file.messages
             /\ \E i \in 1..Len(ld_file.messages) : ld_file.messages[i].id = ld_ret[2]
             /\ \A i \in 1..Len(ld_file.messages) : ld_file.messages[i].id <= ld_ret[2]

\* a file whose highest ID is neither first nor last has been loaded
C18_Witness ==
    /\ ld_pc = "done" /\ ld_file.exists /\ "messages" \in DOMAIN ld_file
    /\ Len(ld_file.messages) = 3
    /\ ld_file.messages[1].id = 1 /\ ld_file.messages[2].id = 3 /\ ld_file.messages[3].id = 2
    /\ ld_ret[2] = 3

(* ===================== chat listing (chats.py) ======================== *)

\* entity classes: the three the code names and one it does not
EntityClasses == {"User", "Chat", "Channel", "ChatForbidden"}

\* the broadcast attribute of an entity: True, False, or no such attribute
BroadcastFlags == {"True", "False", "absent"}

Entities == [class : EntityClasses, broadcast : BroadcastFlags]

\* filter_type: None, the empty string, a chat type, or another string
FilterTypes == {"None", "", "private", "group", "channel", "unknown", "other"}

\* a classifier that takes a Channel without the attribute for a broadcast one
get_chat_type_AbsentIsBroadcast(entity) ==
    IF entity.class = "User" THEN "private"
    ELSE IF entity.class = "Chat" THEN "group"
    ELSE IF entity.class = "Channel"
         THEN IF entity.broadcast # "False" THEN "channel" ELSE "group"
    ELSE "unknown"

\* get_chat_type: by class name, getattr(entity, "broadcast", False) for a Channel
get_chat_type(entity) ==
    IF entity.class = "User" THEN "private"
    ELSE IF entity.class = "Chat" THEN "group"
    ELSE IF entity.class = "Channel"
         THEN IF entity.broadcast = "True" THEN "channel" ELSE "group"
    ELSE "unknown"

\* "if filter_type and chat_type != filter_type: continue"
Skipped(filter_type, chat_type) ==
    filter_type \notin {"None", ""} /\ chat_type # filter_type

\* the loop of list_chats from dialog i on: one dict per dialog kept, the
\* dialog's position standing for its id, name and unread count
RECURSIVE list_chats_from(_, _, _)
list_chats_from(dialogs, filter_type, i) ==
    IF i > Len(dialogs) THEN <<>>
    ELSE LET chat_type == get_chat_type(dialogs[i])
         IN (IF Skipped(filter_type, chat_type) THEN <<>>
             ELSE << [id |-> i, type |-> chat_type] >>)
            \o list_chats_from(dialogs, filter_type, i + 1)

list_chats(dialogs, filter_type) == list_chats_from(dialogs, filter_type, 1)

ChatsInit ==
    /\ lc_dialogs \in SeqsUpTo(Entities, MaxDialogs)
    /\ lc_filter \in FilterTypes
    /\ lc_pc = "call"
    /\ lc_ret = <<>>

ChatsIdle ==
    /\ lc_dialogs = <<>> /\ lc_filter = "None" /\ lc_pc = "off" /\ lc_ret = <<>>

ListChats ==
    /\ lc_pc = "call"
    /\ lc_ret' = list_chats(lc_dialogs, lc_filter)
    /\ lc_pc' = "done"
    /\ UNCHANGED <<lc_dialogs, lc_filter>>

ChatsNext == ListChats

\* the type the claim gives to an entity
ClaimedType(e) ==
    CASE e.class = "User" -> "private"
      [] e.class = "Chat" -> "group"
      [] e.class = "Channel" /\ e.broadcast = "True" -> "channel"
      [] e.class = "Channel" /\ e.broadcast \in {"False", "absent"} -> "group"
      [] OTHER -> "unknown"

\* positions of the dialogs the claim says are listed; None and the empty
\* string are no filter
ClaimedKept ==
    {i \in 1..Len(lc_dialogs) :
        lc_filter \in {"None", ""} \/ ClaimedType(lc_dialogs[i]) = lc_filter}

\* C19: every listed chat carries the type of the claim's table for its
\* entity, and list_chats returns exactly the dialogs whose type equals the
\* filter, in dialog order, or all dialogs without a filter.
C19_ChatTypesAndFilter ==
    lc_pc = "done" =>
        LET kept == InOrder(ClaimedKept)
        IN /\ Len(lc_ret) = Len(kept)
           /\ \A k \in 1..Len(kept) :
                 /\ lc_ret[k].id = kept[k]
                 /\ lc_ret[k].type = ClaimedType(lc_dialogs[kept[k]])

\* a group filter kept a Channel without broadcast attribute and a Chat and
\* dropped the User between them
C19_Witness ==
    /\ lc_pc = "done" /\ lc_filter = "group" /\ Len(lc_dialogs) = 3
    /\ lc_dialogs[1] = [class |-> "Channel", broadcast |-> "absent"]
    /\ lc_dialogs[2].class = "User" /\ lc_dialogs[3].class = "Chat"
    /\ lc_ret = << [id |-> 1, type |-> "group"], [id |-> 3, type |-> "group"] >>

(* =================== sanitize_filename (utils.py) ===================== *)

\* the characters of the class [<>:"/\\|?*\x00-\x1f]: nine printable ones and
\* the control characters, of which the first and the last stand for all
InvalidPrintable == {"<", ">", ":", "\"", "/", "\\", "|", "?", "*"}
ControlChars == {"x00", "x1f"}
InvalidChars == InvalidPrintable \cup ControlChars

\* characters of the filenames tried: the invalid ones, a letter, the
\* replacement character and the two characters strip(". ") removes
NameChars == InvalidChars \cup {"a", "_", ".", " "}

Unnamed == <<"u", "n", "n", "a", "m", "e", "d">>

\* re.sub(invalid_chars, "_", filename)
ReplaceInvalid(name) ==
    [i \in 1..Len(name) |-> IF name[i] \in InvalidChars THEN "_" ELSE name[i]]

\* str.strip(". "): leading and trailing dots and spaces removed
RECURSIVE StripDotsSpaces(_)
StripDotsSpaces(name) ==
    IF name = <<>> THEN <<>>
    ELSE IF name[1] \in {".", " "} THEN StripDotsSpaces(Tail(name))
    ELSE IF name[Len(name)] \in {".", " "}
         THEN StripDotsSpaces(SubSeq(name, 1, Len(name) - 1))
    ELSE name

\* a version without the fallback for a name that strips to nothing
sanitize_filename_NoFallback(filename) ==
    IF filename = <<>> THEN Unnamed
    ELSE StripDotsSpaces(ReplaceInvalid(filename))

\* utils.sanitize_filename
sanitize_filename(filename) ==
    IF filename = <<>> THEN Unnamed
    ELSE LET sanitized == StripDotsSpaces(ReplaceInvalid(filename))
         IN IF sanitized = <<>> THEN Unnamed ELSE sanitized

SanitizeInit ==
    /\ sf_in \in SeqsUpTo(NameChars, MaxName)
    /\ sf_pc = "call"
    /\ sf_out = <<>>
    /\ sf_out2 = <<>>

SanitizeIdle ==
    /\ sf_in = <<>> /\ sf_pc = "off" /\ sf_out = <<>> /\ sf_out2 = <<>>

Sanitize ==
    /\ sf_pc = "call"
    /\ sf_out' = sanitize_filename(sf_in)
    /\ sf_pc' = "once"
    /\ UNCHANGED <<sf_in, sf_out2>>

\* the result is sanitized again
SanitizeAgain ==
    /\ sf_pc = "once"
    /\ sf_out2' = sanitize_filename(sf_out)
    /\ sf_pc' = "twice"
    /\ UNCHANGED <<sf_in, sf_out>>

SanitizeNext == Sanitize \/ SanitizeAgain

\* C20: the result of sanitize_filename is non-empty and holds none of the
\* characters < > : " / \ | ? * and no control character; sanitizing the
\* result again gives the same result.
C20_SanitizeFilename ==
    /\ sf_pc \in {"once", "twice"} =>
          /\ Len(sf_out) > 0
          /\ \A i \in 1..Len(sf_out) :
                sf_out[i] \notin {"<", ">", ":", "\"", "/", "\\", "|", "?", "*", "x00", "x1f"}
    /\ sf_pc = "twice" => sf_out2 = sf_out

\* a name of an invalid character between a dot and a space was sanitized
\* twice
C20_Witness ==
    /\ sf_pc = "twice" /\ sf_in = <<".", "<", " ">>
    /\ sf_out = <<"_">> /\ sf_out2 = <<"_">>

(* ============= the chat output directory of download (cli.py) ========= *)

\* the characters _sanitize_filename replaces
CliInvalidChars == {"<", ">", ":", "\"", "/", "\\", "|", "?", "*"}

\* characters of the display names tried: a letter, the dot, the space
\* str.strip() removes, and one replaced character
DirChars == {"a", ".", " ", "/"}

\* display names of chats: non-empty titles
DisplayNames == SeqsUpTo(DirChars, MaxName) \ {<<>>}

\* the chats of the account, by chat ID
ChatIds == {1, 2}

\* str.strip(): leading and trailing whitespace removed
RECURSIVE StripSpaces(_)
StripSpaces(name) ==
    IF name = <<>> THEN <<>>
    ELSE IF name[1] = " " THEN StripSpaces(Tail(name))
    ELSE IF name[Len(name)] = " " THEN StripSpaces(SubSeq(name, 1, Len(name) - 1))
    ELSE name

\* cli._sanitize_filename
_sanitize_filename(name) ==
    StripSpaces([i \in 1..Len(name) |-> IF name[i] \in CliInvalidChars THEN "_" ELSE name[i]])

\* the --output directory, as the sequence of its path components
OutputDir == <<"output">>

\* pathlib's dir / name for a name without "/": an empty name and "." add
\* no component, any other name (".." too) is one more component
PathJoin(dir, name) ==
    IF name = <<>> \/ name = <<".">> THEN dir ELSE Append(dir, name)

NoDir == <<>>

ChatDirInit ==
    /\ cd_names \in [ChatIds -> DisplayNames]
    /\ cd_sanitized = [c \in ChatIds |-> <<>>]
    /\ cd_dir = [c \in ChatIds |-> NoDir]

ChatDirIdle ==
    /\ cd_names = <<>> /\ cd_sanitized = <<>> /\ cd_dir = <<>>

\* a download of chat c: chat_output_dir = output_dir / _sanitize_filename(name),
\* created with mkdir(parents=True, exist_ok=True)
ChatDir(c) ==
    /\ cd_dir[c] = NoDir
    /\ cd_sanitized' = [cd_sanitized EXCEPT ![c] = _sanitize_filename(cd_names[c])]
    /\ cd_dir' = [cd_dir EXCEPT ![c] = PathJoin(OutputDir, _sanitize_filename(cd_names[c]))]
    /\ UNCHANGED cd_names

ChatDirNext == \E c \in ChatIds : ChatDir(c)

\* C28: downloads of two chats with different chat IDs use different chat
\* output directories under one --output directory.
C28_DirectoryPerChat ==
    \A c, e \in ChatIds :
        c # e /\ cd_dir[c] # NoDir /\ cd_dir[e] # NoDir => cd_dir[c] # cd_dir[e]

\* C29: the chat output directory of a download is a direct child of the
\* --output directory: the sanitized name is not empty, "." or ".." and holds
\* no path separator.
C29_DirectChildOfOutput ==
    \A c \in ChatIds :
        cd_dir[c] # NoDir =>
            /\ cd_sanitized[c] \notin {<<>>, <<".">>, <<".", ".">>}
            /\ \A i \in 1..Len(cd_sanitized[c]) : cd_sanitized[c][i] \notin {"/", "\\"}
            /\ cd_dir[c] = Append(OutputDir, cd_sanitized[c])

(* ============================ specifications =========================== *)

TrIdle ==
    /\ tr_pc = "idle" /\ max_wait = 0 /\ wait_time = 0
    /\ result = [pending |-> FALSE, text |-> "None"]
    /\ tr_requests = 0 /\ tr_return = "unset" /\ tr_cause = "none"

MetaIdle ==
    /\ meta_in = <<>>
    /\ metadata = NoMetadata

Init == RunInit /\ MediaIdle /\ TrIdle /\ MetaIdle /\ DlIdle /\ AuthIdle
    /\ LoadIdle /\ ChatsIdle /\ SanitizeIdle /\ MediaRunsIdle /\ PhasesIdle
    /\ ChatDirIdle

Next == RunNext /\ UNCHANGED <<mediaVars, trVars, metaVars, dlVars, authVars
        , loadVars, chatVars, utilVars, runsVars, phVars, dirVars>>

Spec == Init /\ [][Next]_vars

InitOptions == RunInitOptions /\ MediaIdle /\ TrIdle /\ MetaIdle /\ DlIdle
    /\ AuthIdle /\ LoadIdle /\ ChatsIdle /\ SanitizeIdle /\ MediaRunsIdle
    /\ PhasesIdle /\ ChatDirIdle

SpecOptions == InitOptions /\ [][Next]_vars

InitMedia == RunIdle /\ MediaInit /\ TrIdle /\ MetaIdle /\ DlIdle /\ AuthIdle
    /\ LoadIdle /\ ChatsIdle /\ SanitizeIdle /\ MediaRunsIdle /\ PhasesIdle
    /\ ChatDirIdle

NextMedia == MediaNext /\ UNCHANGED <<runVars, trVars, metaVars, dlVars
        , authVars, loadVars, chatVars, utilVars, runsVars, phVars, dirVars>>

SpecMedia == InitMedia /\ [][NextMedia]_vars

InitTranscribe == RunIdle /\ MediaIdle /\ TrInit /\ MetaIdle /\ DlIdle
    /\ AuthIdle /\ LoadIdle /\ ChatsIdle /\ SanitizeIdle /\ MediaRunsIdle
    /\ PhasesIdle /\ ChatDirIdle

NextTranscribe == TrNext /\ UNCHANGED <<runVars, mediaVars, metaVars, dlVars
        , authVars, loadVars, chatVars, utilVars, runsVars, phVars, dirVars>>

SpecTranscribe == InitTranscribe /\ [][NextTranscribe]_vars

\* every request of the client is answered or fails, and the coroutine is
\* resumed: the call keeps taking steps while it has one to take
SpecTranscribeFair == SpecTranscribe /\ WF_vars(NextTranscribe)

InitMeta == RunIdle /\ MediaIdle /\ TrIdle /\ MetaInit /\ DlIdle /\ AuthIdle
    /\ LoadIdle /\ ChatsIdle /\ SanitizeIdle /\ MediaRunsIdle /\ PhasesIdle
    /\ ChatDirIdle

NextMeta == MetaNext /\ UNCHANGED <<runVars, mediaVars, trVars, dlVars
        , authVars, loadVars, chatVars, utilVars, runsVars, phVars, dirVars>>

SpecMeta == InitMeta /\ [][NextMeta]_vars

InitDownloader == RunIdle /\ MediaIdle /\ TrIdle /\ MetaIdle /\ DlInit
    /\ AuthIdle /\ LoadIdle /\ ChatsIdle /\ SanitizeIdle /\ MediaRunsIdle
    /\ PhasesIdle /\ ChatDirIdle

NextDownloader == DlNext /\ UNCHANGED <<runVars, mediaVars, trVars, metaVars
        , authVars, loadVars, chatVars, utilVars, runsVars, phVars, dirVars>>

SpecDownloader == InitDownloader /\ [][NextDownloader]_vars

InitAuth == RunIdle /\ MediaIdle /\ TrIdle /\ MetaIdle /\ DlIdle /\ AuthInit
    /\ LoadIdle /\ ChatsIdle /\ SanitizeIdle /\ MediaRunsIdle /\ PhasesIdle
    /\ ChatDirIdle

NextAuth == AuthNext /\ UNCHANGED <<runVars, mediaVars, trVars, metaVars
        , dlVars, loadVars, chatVars, utilVars, runsVars, phVars, dirVars>>

SpecAuth == InitAuth /\ [][NextAuth]_vars

InitLoad == RunIdle /\ MediaIdle /\ TrIdle /\ MetaIdle /\ DlIdle /\ AuthIdle
    /\ LoadInit /\ ChatsIdle /\ SanitizeIdle /\ MediaRunsIdle /\ PhasesIdle
    /\ ChatDirIdle

NextLoad == LoadNext /\ UNCHANGED <<runVars, mediaVars, trVars, metaVars
        , dlVars, authVars, chatVars, utilVars, runsVars, phVars, dirVars>>

SpecLoad == InitLoad /\ [][NextLoad]_vars

InitChats == RunIdle /\ MediaIdle /\ TrIdle /\ MetaIdle /\ DlIdle /\ AuthIdle
    /\ LoadIdle /\ ChatsInit /\ SanitizeIdle /\ MediaRunsIdle /\ PhasesIdle
    /\ ChatDirIdle

NextChats == ChatsNext /\ UNCHANGED <<runVars, mediaVars, trVars, metaVars
        , dlVars, authVars, loadVars, utilVars, runsVars, phVars, dirVars>>

SpecChats == InitChats /\ [][NextChats]_vars

InitSanitize == RunIdle /\ MediaIdle /\ TrIdle /\ MetaIdle /\ DlIdle
    /\ AuthIdle /\ LoadIdle /\ ChatsIdle /\ SanitizeInit /\ MediaRunsIdle
    /\ PhasesIdle /\ ChatDirIdle

NextSanitize == SanitizeNext /\ UNCHANGED <<runVars, mediaVars, trVars
        , metaVars, dlVars, authVars, loadVars, chatVars, runsVars, phVars
        , dirVars>>

SpecSanitize == InitSanitize /\ [][NextSanitize]_vars

InitMediaRuns == RunIdle /\ TrIdle /\ MetaIdle /\ DlIdle /\ AuthIdle
    /\ LoadIdle /\ ChatsIdle /\ SanitizeIdle /\ MediaRunsInit /\ PhasesIdle
    /\ ChatDirIdle

NextMediaRuns == MediaRunsNext /\ UNCHANGED <<runVars, trVars, metaVars
        , dlVars, authVars, loadVars, chatVars, utilVars, phVars, dirVars>>

SpecMediaRuns == InitMediaRuns /\ [][NextMediaRuns]_vars

InitPhases == RunIdle /\ MediaIdle /\ TrIdle /\ MetaIdle /\ DlIdle /\ AuthIdle
    /\ LoadIdle /\ ChatsIdle /\ SanitizeIdle /\ MediaRunsIdle /\ PhasesInit
    /\ ChatDirIdle

NextPhases == PhasesNext /\ UNCHANGED <<runVars, mediaVars, trVars, metaVars
        , dlVars, authVars, loadVars, chatVars, utilVars, runsVars, dirVars>>

SpecPhases == InitPhases /\ [][NextPhases]_vars

InitChatDir == RunIdle /\ MediaIdle /\ TrIdle /\ MetaIdle /\ DlIdle
    /\ AuthIdle /\ LoadIdle /\ ChatsIdle /\ SanitizeIdle /\ MediaRunsIdle
    /\ PhasesIdle /\ ChatDirInit

NextChatDir == ChatDirNext /\ UNCHANGED <<runVars, mediaVars, trVars, metaVars
        , dlVars, authVars, loadVars, chatVars, utilVars, runsVars, phVars>>

SpecChatDir == InitChatDir /\ [][NextChatDir]_vars

====
